---- MODULE Spec2Model ----
(***************************************************************************)
(* Occupancy reconciliation and ticket lifecycle of the street-parking     *)
(* server: the /post ingress (main.py receive_parking_data), the global    *)
(* POST_QUEUE with its single worker thread (main.py _post_worker), the    *)
(* reconciler (main.py _process_post_task, _exit_flow) and the ticket      *)
(* lifecycle (ocr_processor.py process_plate_and_issue_ticket).            *)
(***************************************************************************)
EXTENDS Integers, Sequences, FiniteSets, TLC

(***************************************************************************)
(* Bounds of the model.                                                    *)
(***************************************************************************)
MaxTime == 2
MaxEvents == 2

(***************************************************************************)
(* Values.                                                                 *)
(***************************************************************************)
\* SQL NULL / Python None for exit_time and parkonic_trip_id (times and ids are >= 1)
NULL == 0
\* the cameras of the deployment and the spot numbers of each
Cameras == {1, 2}
Spots == {1}
Times == 1..MaxTime
EventIds == 1..MaxEvents

\* OCR confidence at or above which a plate is READ
T_CONF == 5

\* models.Ticket, the columns the reconciler and the lifecycle read or write
TicketRow(cam, spot, plate, conf, entry, trip) ==
    [camera_id |-> cam, spot_number |-> spot, plate_number |-> plate,
     confidence |-> conf, entry_time |-> entry, exit_time |-> NULL,
     parkonic_trip_id |-> trip]

\* models.ManualReview, the columns the lifecycle reads or writes
ReviewRowAlwaysResolved(cam, spot, time, plate_status) ==
    [camera_id |-> cam, spot_number |-> spot, event_time |-> time,
     ticket_id |-> NULL, plate_status |-> plate_status, clip_path |-> NULL,
     review_status |-> "RESOLVED"]

ReviewRow(cam, spot, time, plate_status) ==
    [camera_id |-> cam, spot_number |-> spot, event_time |-> time,
     ticket_id |-> NULL, plate_status |-> plate_status, clip_path |-> NULL,
     review_status |-> IF plate_status = "READ" THEN "RESOLVED" ELSE "PENDING"]

SeedIds == 1..(Cardinality(Cameras) * Cardinality(Spots))

\* A ticket store as a deployment or a test fixture leaves it before the
\* server handles its first event: per (camera, spot) at most one ticket,
\* open, with or without a billing trip id (ticket i carries trip id i).
SeedTickets ==
    { s \in UNION { [1..n -> [camera_id : Cameras, spot_number : Spots,
                              plate_number : {"AAA"}, confidence : {90},
                              entry_time : {1}, exit_time : {NULL},
                              parkonic_trip_id : {NULL} \cup SeedIds]]
                    : n \in {0} \cup SeedIds } :
        /\ \A i \in DOMAIN s : s[i].parkonic_trip_id \in {NULL, i}
        /\ \A i, j \in DOMAIN s :
              i < j => \/ s[i].camera_id < s[j].camera_id
                       \/ /\ s[i].camera_id = s[j].camera_id
                          /\ s[i].spot_number < s[j].spot_number }

\* The JSON payload of a /post request, reduced to what decides its handling:
\* shape "ok" is a payload with every required field whose parking_area names
\* a camera; "missing" lacks a required field; "badarea" has a parking_area
\* that is not letters+digits; "notstring" has a parking_area that is not a
\* string (a JSON number, say); "nocamera" names no camera of the database.
\* (Whether payload["snapshot"] decodes is asked where the handler decodes it.)
WellFormedEvents ==
    [shape : {"ok"}, camera_id : Cameras, spot_number : Spots,
     occupancy : {0, 1}, time : Times]
MalformedEvents ==
    [shape : {"missing", "badarea", "notstring", "nocamera"}, camera_id : {NULL},
     spot_number : {NULL}, occupancy : {1}, time : {1}]
Events == WellFormedEvents \cup MalformedEvents
\* requests whose body cannot be read or parsed at all
UnreadableRequests == {"disconnect", "badjson"}

NoTask == [id |-> 0]
NoLast == [id |-> 0]

\* network.send_request_with_retry(url, payload, max_retries=2, backoff=1.0)
MAX_RETRIES == 2
\* what one requests.post(...) followed by r.raise_for_status() does: returns
\* ("ok"), raises HTTPError for a 4xx/5xx status, or raises Timeout
PostOutcomes == {"ok", "http_error", "timeout"}
\* the default of the parameter backoff (seconds)
BACKOFF == 1
NoRequest == [outcomes |-> <<>>, max_retries |-> 0, backoff |-> BACKOFF,
              attempts |-> 0, sleeps |-> <<>>, result |-> "none"]

\* bound: the reads of the camera stream one call may need
MaxAttempts == 3
\* def fetch_camera_frame(camera_ip: str, username: str, password: str)
FetchFrameParams == {"camera_ip", "username", "password"}
\* The calls of fetch_camera_frame: three positional arguments, as
\* ocr_processor.py line 263 calls it, with the keyword rtsp_path, as main.py
\* line 1494 does, or with max_attempts, as the tests do.  frames[k] is what
\* the k-th stream.read() yields; encodes: cv2.imencode returns ok.
FrameCalls ==
    [keywords : SUBSET {"rtsp_path", "max_attempts"},
     max_attempts : 1..MaxAttempts,
     frames : [1..MaxAttempts -> {"None", "frame"}],
     encodes : BOOLEAN, reads : {0}, result : {"none"}]
NoStream ==
    [keywords |-> {}, max_attempts |-> 1,
     frames |-> [k \in 1..MaxAttempts |-> "None"],
     encodes |-> FALSE, reads |-> 0, result |-> "none"]

\* class ManualCorrection: plate_number, plate_code, plate_city, confidence.
\* (plate_number stands for the three plate columns of a ticket, which every
\* writer of a ticket sets together.)
Corrections == [plate_number : {"NEW"}, confidence : {99}]
NoCorrection == [plate_number |-> "", confidence |-> NULL]
NoRow == TicketRow(NULL, NULL, "", NULL, NULL, NULL)
NoManual ==
    [op |-> "none", stage |-> "idle", review_id |-> NULL, ticket_id |-> NULL,
     ticket |-> NoRow, correction |-> NoCorrection, stale |-> FALSE,
     closed |-> FALSE, commits |-> <<>>, store |-> "ok", prepared |-> "",
     billing |-> <<>>, status |-> 0, result |-> ""]

VARIABLES
    tickets,      \* table tickets: sequence of rows, index = id
    reviews,      \* table manual_reviews: sequence of rows, index = id
    POST_QUEUE,   \* the global queue of /post tasks: sequence of [id, ev]
    fut,          \* per request: "none", "refused", "pending", "result", "exception"
    worker,       \* the worker thread: "idle", "busy" (or "dead")
    current,      \* the task the worker took from the queue, or NoTask
    billing,      \* every call made to the billing gateway, in order
    last,         \* the last task processed: payload, store before, outcome
    http,         \* one send_request_with_retry call: what each POST does,
                  \* max_retries, the attempts made and what the caller got
    manual,       \* one manual-review request (correct or dismiss), handled
                  \* by a request thread: what it loaded, wrote and answered
    stream        \* one fetch_camera_frame call: its arguments, what each read
                  \* of the camera stream yields, the reads made, the result

vars == <<tickets, reviews, POST_QUEUE, fut, worker, current, billing, last,
         http, manual, stream>>

(***************************************************************************)
(* The run of one task.  A run is a record: the two tables as the task     *)
(* leaves them, the calls it made (vision, billing), the branch of the     *)
(* reconciler it took (class), what the vehicle detector answered, whether *)
(* the store failed, what each commit it attempted did (commits), what the  *)
(* plate attempts read (readings) and the plate                             *)
(* they ended with, and how it ended (returned a JSONResponse or raised).   *)
(* An operator that models a piece of a handler maps a run to the set of   *)
(* runs that piece can continue it with, one per answer of the             *)
(* environment (camera, detector, store, billing gateway).                 *)
(***************************************************************************)
StartRun(tk, rv) ==
    [tickets |-> tk, reviews |-> rv, billing |-> <<>>, calls |-> <<>>,
     class |-> {}, detector |-> "notcalled", store |-> "ok", commits |-> <<>>,
     readings |-> <<>>, plate |-> [status |-> "", number |-> "", conf |-> NULL],
     raised |-> FALSE, status |-> 0, result |-> ""]

\* raise HTTPException(status_code=status, detail=detail)
HTTPException(run, status, detail) ==
    [run EXCEPT !.raised = TRUE, !.status = status, !.result = detail]

\* return JSONResponse(status_code=200, content={"message": message})
JSONResponse(run, message) ==
    [run EXCEPT !.raised = FALSE, !.status = 200, !.result = message]

Called(run, what) == [run EXCEPT !.calls = Append(@, what)]
Classified(run, as) == [run EXCEPT !.class = @ \cup {as}]
StoreFailed(run) == [run EXCEPT !.store = "failed"]
Attempted(run, outcomes) == [run EXCEPT !.commits = @ \o outcomes]

\* db.query(Ticket).filter_by(camera_id=, spot_number=, exit_time=None)
\*   .order_by(Ticket.entry_time.desc()).first(): the id of the row, or NULL
OpenTicketIgnoringExitTime(tk, cam, spot) ==
    LET rows == { i \in DOMAIN tk : /\ tk[i].camera_id = cam
                                   /\ tk[i].spot_number = spot }
    IN  IF rows = {} THEN NULL
        ELSE CHOOSE i \in rows : \A j \in rows : tk[j].entry_time <= tk[i].entry_time

OpenTicketNever(tk, cam, spot) == NULL

OpenTicket(tk, cam, spot) ==
    LET rows == { i \in DOMAIN tk : /\ tk[i].camera_id = cam
                                   /\ tk[i].spot_number = spot
                                   /\ tk[i].exit_time = NULL }
    IN  IF rows = {} THEN NULL
        ELSE CHOOSE i \in rows : \A j \in rows : tk[j].entry_time <= tk[i].entry_time

\* _retry_commit(obj, session).  first, second: what session.commit() and the
\* commit of the fresh session do ("ok" or "lost" = OperationalError);
\* pending: obj is a new row (INSERT) rather than a changed one (UPDATE).
\* The rollback after a lost commit expires obj and drops its unflushed
\* change, so the fresh session re-sends a pending row but has nothing to
\* write for a changed one.
RetryCommitAssumed(pending, first, second) == "committed"

_retry_commit(pending, first, second) ==
    IF first = "ok" THEN "committed"
    ELSE IF second = "lost" THEN "raise"
    ELSE IF pending THEN "committed"
    ELSE "discarded"

\* the outcomes of the two commits that _retry_commit may attempt
CommitAttempts == {<<"ok", "ok">>, <<"lost", "ok">>, <<"lost", "lost">>}

\* the commits _retry_commit attempts: the second one only after a lost first
CommitsMade(c) == IF c[1] = "ok" THEN <<c[1]>> ELSE c

(***************************************************************************)
(* network.py send_request_with_retry                                      *)
(***************************************************************************)
\* lines 24-27: if attempt < max_retries: time.sleep(...) else: raise
RetryOnceLess(attempt, max_retries) == attempt + 1 < max_retries

Retry(attempt, max_retries) == attempt < max_retries

\* line 25: time.sleep(backoff * (2 ** attempt))
BackoffConstant(backoff, attempt) == backoff

Backoff(backoff, attempt) == backoff * (2 ^ attempt)

\* one pass of `for attempt in range(max_retries + 1)`; outcomes[k] is what
\* the k-th POST does.  The first POST that succeeds returns r.text.  sleeps:
\* the waits (time.sleep) made so far, in order.
RECURSIVE PostLoop(_, _, _, _, _)
PostLoop(outcomes, max_retries, backoff, attempt, sleeps) ==
    IF outcomes[attempt + 1] = "ok"
    THEN [attempts |-> attempt + 1, sleeps |-> sleeps, result |-> "text"]
    ELSE IF Retry(attempt, max_retries)
    THEN PostLoop(outcomes, max_retries, backoff, attempt + 1,
                  Append(sleeps, Backoff(backoff, attempt)))
    ELSE [attempts |-> attempt + 1, sleeps |-> sleeps, result |-> "raise"]

send_request_with_retry(outcomes, max_retries, backoff) ==
    PostLoop(outcomes, max_retries, backoff, 0, <<>>)

(***************************************************************************)
(* main.py _exit_flow                                                      *)
(***************************************************************************)
\* open_ticket.exit_time = datetime.fromisoformat(payload["time"])
ExitTimeFromEntry(ev, ticket) == ticket.entry_time

ExitTime(ev, ticket) == ev.time

\* if spot_has_car(frame_bytes, camera_id=, spot_number=): (answer: what the
\* call did: "car", "nocar", or "raise")
SpotHasCarIgnored(answer) == FALSE

SpotHasCarInverted(answer) == answer = "nocar"

SpotHasCar(answer) == answer = "car"

\* line 783: if open_ticket.parkonic_trip_id is not None:
ParkOutAlways(ticket) == TRUE

ParkOutDue(ticket) == ticket.parkonic_trip_id # NULL

\* lines 794-795: except Exception: logger.error("park_out_request failed")
ParkOutFailedReopens(run, id) == [run EXCEPT !.tickets[id].exit_time = NULL]

ParkOutFailed(run, id) == run

\* lines 783-797: the billing call of a closed ticket, then the response.
\* answer: park_out_request returns ("ok") or raises what
\* send_request_with_retry raised after its last attempt ("raise")
ExitNotifyBilling(run, ev, id) ==
    LET trip == run.tickets[id].parkonic_trip_id
        call(answer) == [op |-> "park_out", trip_id |-> trip, time |-> ev.time,
                         ticket_id |-> id, answer |-> answer]
        asked(answer) == [run EXCEPT !.billing = Append(@, call(answer))]
    IN  IF ParkOutDue(run.tickets[id])
        THEN { JSONResponse(IF answer = "raise"
                            THEN ParkOutFailed(asked(answer), id)
                            ELSE asked(answer),
                            "Exit recorded") : answer \in {"ok", "raise"} }
        ELSE { JSONResponse(run, "Exit recorded") }

\* lines 748-760: the event's snapshot is decoded again, opened as an image and
\* saved to a temporary file.  decoded: base64.b64decode worked before.
\* "None": decoding or Image.open raised (caught, pil_img = None); "saved";
\* "raise": pil_img.save raised (an image that opens but cannot be loaded or
\* written as JPEG, or a failing write), which nothing here catches.
SnapshotSaves(decoded) ==
    IF decoded THEN {"None", "saved", "raise"} ELSE {"None"}

\* lines 763-814: look the open ticket up, close it, tell billing
ExitCloseTicket(run, ev) ==
    UNION {
        IF query = "sqlerr"
        THEN { HTTPException(StoreFailed(run), 500, "Database error on exit") }
        ELSE LET id == OpenTicket(run.tickets, ev.camera_id, ev.spot_number) IN
             IF id = NULL
             THEN { JSONResponse(Classified(run, "no-ticket-NOOP"),
                                 "No open ticket to close") }
             ELSE LET exit == Classified(run, "EXIT")
                      closed == [exit EXCEPT !.tickets[id].exit_time =
                                                 ExitTime(ev, run.tickets[id])]
                  IN  UNION {
                        LET done == _retry_commit(FALSE, c[1], c[2]) IN
                        IF done = "committed"
                        THEN ExitNotifyBilling(Attempted(closed, CommitsMade(c)),
                                               ev, id)
                        \* "raise": OperationalError of the second commit;
                        \* "discarded": open_ticket is expired and detached,
                        \* reading open_ticket.id raises DetachedInstanceError.
                        \* Both are SQLAlchemyError, handled at lines 806-812.
                        ELSE { HTTPException(
                                   StoreFailed(Attempted(exit, CommitsMade(c))),
                                   500, "Database error on exit") }
                        : c \in CommitAttempts }
        : query \in {"ok", "sqlerr"} }

\* lines 748-762: the temporary copy of the snapshot, then the ticket
ExitSaveSnapshot(run, ev, decoded) ==
    UNION {
        IF saved = "raise"
        THEN { [run EXCEPT !.raised = TRUE, !.status = 500, !.result = "OSError"] }
        ELSE ExitCloseTicket(run, ev)
        : saved \in SnapshotSaves(decoded) }

\* lines 719-746: get a frame (the camera clip, else the event's snapshot) and
\* ask the vehicle detector; a vehicle in the frame ends the handling
_exit_flow(run, ev) ==
    UNION {
        \* fetched: fetch_exit_frame gives "bytes" or does "raise"; then
        \* base64.b64decode(payload["snapshot"]) gives "snapshot" or "None"
        LET frame_bytes == IF fetched[1] = "bytes" THEN "clip" ELSE fetched[2]
            tried == Called(run, "fetch_exit_frame")
        IN  IF frame_bytes = "None" THEN ExitSaveSnapshot(tried, ev, FALSE)
            ELSE UNION {
                   LET asked == [Called(tried, "spot_has_car")
                                    EXCEPT !.detector = answer]
                   IN  IF SpotHasCar(answer)
                       THEN { JSONResponse(Classified(asked, "false-clear"),
                                           "Spot still occupied") }
                       ELSE ExitSaveSnapshot(asked, ev, fetched[2] = "snapshot")
                   : answer \in {"car", "nocar", "raise"} }
        : fetched \in {<<"bytes", "snapshot">>, <<"bytes", "None">>,
                        <<"raise", "snapshot">>, <<"raise", "None">>} }

(***************************************************************************)
(* ocr_processor.py process_plate_and_issue_ticket                         *)
(***************************************************************************)
\* What one plate-recognition attempt yields: no plate box from the model
\* ("noplate"), an OCR request that fails after its retries ("raise"), an
\* answer that does not decode to a dict with an integer confidence
\* ("garbled"), or an answer with a confidence ("conf").
Readings ==
    [kind : {"noplate", "raise", "garbled"}, conf : {0}]
        \cup [kind : {"conf"}, conf : {T_CONF - 1, T_CONF}]

NoPlate == [status |-> "UNREAD", number |-> "", conf |-> NULL]

\* lines 231-258, 319-339: if confidance_value >= 5: plate_status = "READ"
PlateOfAbove(reading, text, before) ==
    IF reading.kind = "conf" /\ reading.conf > T_CONF
    THEN [status |-> "READ", number |-> text, conf |-> reading.conf]
    ELSE before

PlateOf(reading, text, before) ==
    IF reading.kind = "conf" /\ reading.conf >= T_CONF
    THEN [status |-> "READ", number |-> text, conf |-> reading.conf]
    ELSE before

\* db_session.commit() of the lifecycle: no retry; "lost" raises
Commits == {"ok", "lost"}

\* lines 465-548: UNREAD: ticket without trip id, linked to the review
PlateIssueUnread(run, ev, plate, review_id) ==
    IF OpenTicket(run.tickets, ev.camera_id, ev.spot_number) # NULL THEN { run }
    ELSE UNION {
        IF c = "lost" THEN { StoreFailed(Attempted(run, <<c>>)) }
        ELSE LET row == TicketRow(ev.camera_id, ev.spot_number, "UNKNOWN", 0,
                                  ev.time, NULL)
                 added == [Attempted(run, <<c>>) EXCEPT !.tickets = Append(@, row)]
                 id == Len(added.tickets)
                 linked == [added EXCEPT !.reviews[review_id].ticket_id = id]
             IN  UNION {
                   IF c2 = "lost" THEN { StoreFailed(Attempted(added, <<c2>>)) }
                   ELSE { Called(Attempted(linked, <<c2>>), "request_camera_clip"),
                          [Called(Attempted(linked, <<c2>>), "request_camera_clip")
                              EXCEPT !.reviews[review_id].clip_path = review_id] }
                   : c2 \in Commits }
        : c \in Commits }

\* line 439: trip_id = ticket_resp.get("trip_id") if isinstance(ticket_resp,
\* dict) else None.  answer: what park_in_request did; trip: the id in it
TripIdDropped(answer, trip) == NULL

TripId(answer, trip) == IF answer = "trip_id" THEN trip ELSE NULL

\* lines 397-463: READ: park_in_request, then a ticket only if it returned a
\* trip id; every exception in here is caught and logged at line 462
PlateIssueRead(run, ev, plate, review_id) ==
    LET trip == Cardinality(SeedIds) + 1
                   + Cardinality({ k \in DOMAIN run.tickets :
                                      run.tickets[k].parkonic_trip_id # NULL })
        call(answer) == [op |-> "park_in",
                         trip_id |-> IF answer = "trip_id" THEN trip ELSE NULL,
                         time |-> ev.time,
                         ticket_id |-> OpenTicket(run.tickets, ev.camera_id,
                                                  ev.spot_number),
                         answer |-> answer]
    IN  UNION {
          LET asked == [run EXCEPT !.billing = Append(@, call(answer))] IN
          IF answer = "raise" \/ TripId(answer, trip) = NULL THEN { asked }
          ELSE UNION {
                 IF c = "lost" THEN { StoreFailed(Attempted(asked, <<c>>)) }
                 ELSE LET row == TicketRow(ev.camera_id, ev.spot_number,
                                           plate.number, plate.conf, ev.time,
                                           TripId(answer, trip))
                          added == [Attempted(asked, <<c>>)
                                       EXCEPT !.tickets = Append(@, row)]
                          id == Len(added.tickets)
                      IN  { IF c2 = "lost" THEN StoreFailed(Attempted(added, <<c2>>))
                            ELSE [Attempted(added, <<c2>>)
                                     EXCEPT !.reviews[review_id].ticket_id = id]
                            : c2 \in Commits }
                 : c \in Commits }
          : answer \in {"raise", "no_trip_id", "trip_id"} }

\* lines 364-395: the plate_logs row and the manual_reviews row
PlateRecord(run, ev, plate) ==
    UNION {
        IF c = "lost"
        THEN { StoreFailed(Attempted([run EXCEPT !.plate = plate], <<c>>)) }
        ELSE LET row == ReviewRow(ev.camera_id, ev.spot_number, ev.time, plate.status)
                 added == [Attempted(run, <<c>>)
                              EXCEPT !.reviews = Append(@, row), !.plate = plate]
                 review_id == Len(added.reviews)
             IN  IF plate.status = "READ"
                 THEN PlateIssueRead(added, ev, plate, review_id)
                 ELSE PlateIssueUnread(added, ev, plate, review_id)
        : c \in Commits }

\* lines 260-341: one fresh camera frame and a second attempt, if UNREAD
PlateRetryNever(run, ev, plate) == PlateRecord(run, ev, plate)

PlateRetry(run, ev, plate) ==
    IF plate.status # "UNREAD" THEN PlateRecord(run, ev, plate)
    ELSE UNION {
        LET fetched == Called(run, "fetch_camera_frame") IN
        IF frame = "raise" THEN PlateRecord(fetched, ev, plate)
        ELSE UNION { PlateRecord([Called(fetched, "read_plate")
                                     EXCEPT !.readings = Append(@, second)],
                                 ev, PlateOf(second, "XYZ", plate))
                     : second \in Readings }
        : frame \in {"bytes", "raise"} }

\* lines 99-259: the snapshot, the spot, the first attempt
process_plate_and_issue_ticket(run, ev) ==
    UNION {
        IF ~found THEN { run }
        ELSE UNION {
               LET tried == [Called(run, "read_plate")
                                EXCEPT !.readings = Append(@, first)] IN
               \* send_request_with_retry raises: caught at line 550
               IF first.kind = "raise" THEN { tried }
               ELSE PlateRetry(tried, ev, PlateOf(first, "ABC", NoPlate))
               : first \in Readings }
        : found \in BOOLEAN }

(***************************************************************************)
(* main.py _process_plate_task, _process_post_task                         *)
(***************************************************************************)
\* def process_plate_and_issue_ticket(payload, ..., parkonic_api_token)
ProcessPlateParams ==
    <<"payload", "park_folder", "ts", "camera_id", "pole_id", "api_pole_id",
      "spot_number", "camera_ip", "camera_user", "camera_pass",
      "parkonic_api_token">>

\* the positional arguments of the call in _process_plate_task
ProcessPlateArgs ==
    <<"payload", "park_folder", "ts", "camera_id", "pole_id", "api_pole_id",
      "spot_number", "camera_ip", "camera_user", "camera_pass",
      "parkonic_api_token", "rtsp_path">>

\* a Python call binds when every parameter gets one positional argument;
\* otherwise it raises TypeError before the body runs
_process_plate_task(run, ev) ==
    IF Len(ProcessPlateArgs) = Len(ProcessPlateParams)
    THEN process_plate_and_issue_ticket(run, ev)
    ELSE { [run EXCEPT !.raised = TRUE, !.status = 500, !.result = "TypeError"] }

\* lines 1027-1084: occupancy != 0
EntryBranch(run, ev) ==
    UNION {
        IF query = "sqlerr"
        THEN { HTTPException(StoreFailed(run), 500, "Database error on entry") }
        ELSE IF OpenTicket(run.tickets, ev.camera_id, ev.spot_number) # NULL
        THEN { JSONResponse(Classified(run, "duplicate-ENTRY"),
                            "Spot already occupied") }
        ELSE LET entry == Classified(run, "ENTRY") IN
             UNION {
               \* base64.b64decode(payload["snapshot"]), written to disk
               IF snapshot = "raise"
               THEN { HTTPException(entry, 400, "Cannot decode snapshot") }
               ELSE { IF r.raised THEN r
                      ELSE JSONResponse(r, "Entry queued for processing")
                      : r \in _process_plate_task(entry, ev) }
               : snapshot \in {"bytes", "raise"} }
        : query \in {"ok", "sqlerr"} }

\* lines 1014-1084: if payload["occupancy"] == 0: return _exit_flow(...) else: ...
ReconcileBoth(run, ev) ==
    IF ev.occupancy = 0
    THEN UNION { EntryBranch(r, ev) : r \in _exit_flow(run, ev) }
    ELSE EntryBranch(run, ev)

Reconcile(run, ev) ==
    IF ev.occupancy = 0 THEN _exit_flow(run, ev) ELSE EntryBranch(run, ev)

\* lines 866-1012: required fields, parking_area, camera lookup with one retry
_process_post_task(tk, rv, ev) ==
    LET run == StartRun(tk, rv) IN
    IF ev.shape = "missing" THEN { HTTPException(run, 400, "Missing fields") }
    \* re.match(pattern, payload["parking_area"]) raises TypeError when the
    \* value is not a string; nothing in the handler catches it
    ELSE IF ev.shape = "notstring"
    THEN { [run EXCEPT !.raised = TRUE, !.status = 500, !.result = "TypeError"] }
    ELSE IF ev.shape = "badarea"
    THEN { HTTPException(run, 400, "Invalid parking_area format") }
    ELSE UNION {
        IF lookup = "sqlerr"
        THEN { HTTPException(StoreFailed(run), 500, "Database error") }
        ELSE IF lookup = "losttwice"
        THEN { HTTPException(StoreFailed(run), 500, "Database lookup failed") }
        ELSE IF ev.shape = "nocamera"
        THEN { HTTPException(run, 400, "No camera found for that parking_area") }
        ELSE Reconcile(run, ev)
        : lookup \in {"ok", "lostonce", "losttwice", "sqlerr"} }

(***************************************************************************)
(* main.py POST_QUEUE, _post_worker, receive_parking_data                  *)
(***************************************************************************)
\* POST_QUEUE.get(): the position of the item a get takes
QueueGetLast(q) == Len(q)

QueueGet(q) == 1

\* the worker after a task: try/except/finally inside `while True`
WorkerDiesOnError(raised) == IF raised THEN "dead" ELSE "idle"

WorkerAfterTask(raised) == "idle"

\* the one worker thread calls POST_QUEUE.get() only between two tasks
WorkerAlwaysFree(w) == w # "dead"

WorkerFree(w) == w = "idle"

\* the queue after get() took the item at position i
RemoveAll(q, i) == <<>>

Remove(q, i) == [k \in 1..(Len(q) - 1) |-> IF k < i THEN q[k] ELSE q[k + 1]]

NextId == Cardinality({ i \in EventIds : fut[i] # "none" }) + 1

Init ==
    /\ tickets \in SeedTickets
    /\ reviews = <<>>
    /\ POST_QUEUE = <<>>
    /\ fut = [i \in EventIds |-> "none"]
    /\ worker = "idle"
    /\ current = NoTask
    /\ billing = <<>>
    /\ last = NoLast
    /\ http = NoRequest
    /\ manual = NoManual
    /\ stream = NoStream

\* receive_parking_data, lines 1119-1130: the body cannot be read or parsed;
\* the caller gets the 400 and nothing is queued
Refuse ==
    /\ NextId <= MaxEvents
    /\ \E why \in UnreadableRequests :
          fut' = [fut EXCEPT ![NextId] = "refused"]
    /\ UNCHANGED <<tickets, reviews, POST_QUEUE, worker, current, billing, last,
                   http, manual, stream>>

\* receive_parking_data, lines 1132-1134: fut = Future(); POST_QUEUE.put(...)
Submit ==
    /\ NextId <= MaxEvents
    /\ \E ev \in Events :
          POST_QUEUE' = Append(POST_QUEUE, [id |-> NextId, ev |-> ev])
    /\ fut' = [fut EXCEPT ![NextId] = "pending"]
    /\ UNCHANGED <<tickets, reviews, worker, current, billing, last, http, manual,
                   stream>>

\* _post_worker, line 1092: payload, raw_body, ts, fut = POST_QUEUE.get()
WorkerGet ==
    /\ WorkerFree(worker)
    /\ POST_QUEUE # <<>>
    /\ current' = POST_QUEUE[QueueGet(POST_QUEUE)]
    /\ POST_QUEUE' = Remove(POST_QUEUE, QueueGet(POST_QUEUE))
    /\ worker' = "busy"
    /\ UNCHANGED <<tickets, reviews, fut, billing, last, http, manual, stream>>

\* _post_worker, lines 1093-1099: run the task, complete its Future
WorkerRun ==
    /\ worker = "busy"
    /\ \E run \in _process_post_task(tickets, reviews, current.ev) :
          /\ tickets' = run.tickets
          /\ reviews' = run.reviews
          /\ billing' = billing \o run.billing
          /\ fut' = [fut EXCEPT ![current.id] =
                        IF run.raised THEN "exception" ELSE "result"]
          /\ worker' = WorkerAfterTask(run.raised)
          /\ last' = [id |-> current.id, ev |-> current.ev, before |-> tickets,
                      reviews_before |-> reviews, fut_before |-> fut,
                      run |-> run]
    /\ current' = NoTask
    /\ UNCHANGED <<POST_QUEUE, http, manual, stream>>

Next == Refuse \/ Submit \/ WorkerGet \/ WorkerRun

Spec == Init /\ [][Next]_vars

\* The worker is a thread that loops forever (lines 1090-1102): whenever the
\* queue holds a task it takes one, and a task it took runs to its end
\* (provided the task terminates).
Fairness == WF_vars(WorkerGet) /\ WF_vars(WorkerRun)

\* The sequencer on a store without tickets, where no event changes a table
InitSequencer ==
    /\ tickets = <<>>
    /\ reviews = <<>>
    /\ POST_QUEUE = <<>>
    /\ fut = [i \in EventIds |-> "none"]
    /\ worker = "idle"
    /\ current = NoTask
    /\ billing = <<>>
    /\ last = NoLast
    /\ http = NoRequest
    /\ manual = NoManual
    /\ stream = NoStream

SpecFair == InitSequencer /\ [][Next]_vars /\ Fairness

(***************************************************************************)
(* The ticket lifecycle on its own: process_plate_and_issue_ticket called   *)
(* with its eleven arguments (as tests/test_ocr_ticket.py calls it) for an  *)
(* occupied event, on each seeded store.                                    *)
(***************************************************************************)
OccupiedEvents == { ev \in WellFormedEvents : ev.occupancy = 1 }

CallProcessPlate ==
    /\ last = NoLast
    /\ \E ev \in OccupiedEvents :
         \E run \in process_plate_and_issue_ticket(StartRun(tickets, reviews), ev) :
            /\ tickets' = run.tickets
            /\ reviews' = run.reviews
            /\ billing' = billing \o run.billing
            /\ last' = [id |-> 1, ev |-> ev, before |-> tickets,
                        reviews_before |-> reviews, fut_before |-> fut,
                        run |-> run]
    /\ UNCHANGED <<POST_QUEUE, fut, worker, current, http, manual, stream>>

NextLifecycle == CallProcessPlate

SpecLifecycle == Init /\ [][NextLifecycle]_vars

(***************************************************************************)
(* One gateway request on its own: send_request_with_retry called with     *)
(* max_retries up to the default, against every sequence of POST outcomes. *)
(***************************************************************************)
Requests ==
    [outcomes : [1..(MAX_RETRIES + 1) -> PostOutcomes],
     max_retries : 0..MAX_RETRIES, backoff : {BACKOFF, 2 * BACKOFF},
     attempts : {0}, sleeps : {<<>>}, result : {"none"}]

InitGateway ==
    /\ tickets = <<>>
    /\ reviews = <<>>
    /\ POST_QUEUE = <<>>
    /\ fut = [i \in EventIds |-> "none"]
    /\ worker = "idle"
    /\ current = NoTask
    /\ billing = <<>>
    /\ last = NoLast
    /\ http \in Requests
    /\ manual = NoManual
    /\ stream = NoStream

SendRequest ==
    /\ http.result = "none"
    /\ LET done == send_request_with_retry(http.outcomes, http.max_retries,
                                           http.backoff)
       IN  http' = [http EXCEPT !.attempts = done.attempts,
                                !.sleeps = done.sleeps,
                                !.result = done.result]
    /\ UNCHANGED <<tickets, reviews, POST_QUEUE, fut, worker, current, billing,
                   last, manual, stream>>

NextGateway == SendRequest

SpecGateway == InitGateway /\ [][NextGateway]_vars

(***************************************************************************)
(* camera_clip.py fetch_camera_frame, called once on its own                *)
(***************************************************************************)
\* a Python call binds when every keyword names a parameter
Binds(keywords, params) == keywords \subseteq params

\* lines 113-119: frame = stream.read(); None raises RuntimeError; else the
\* frame is encoded as JPEG and its bytes returned
fetch_camera_frame(call) ==
    IF ~Binds(call.keywords, FetchFrameParams)
    THEN [call EXCEPT !.result = "TypeError"]
    ELSE IF call.frames[1] = "None"
    THEN [call EXCEPT !.reads = 1, !.result = "RuntimeError"]
    ELSE IF ~call.encodes
    THEN [call EXCEPT !.reads = 1, !.result = "RuntimeError"]
    ELSE [call EXCEPT !.reads = 1, !.result = "bytes"]

InitFrame ==
    /\ tickets = <<>>
    /\ reviews = <<>>
    /\ POST_QUEUE = <<>>
    /\ fut = [i \in EventIds |-> "none"]
    /\ worker = "idle"
    /\ current = NoTask
    /\ billing = <<>>
    /\ last = NoLast
    /\ http = NoRequest
    /\ manual = NoManual
    /\ stream \in FrameCalls

FetchFrame ==
    /\ stream.result = "none"
    /\ stream' = fetch_camera_frame(stream)
    /\ UNCHANGED <<tickets, reviews, POST_QUEUE, fut, worker, current, billing,
                   last, http, manual>>

NextFrame == FetchFrame

SpecFrame == InitFrame /\ [][NextFrame]_vars

(***************************************************************************)
(* main.py correct_manual_review, dismiss_manual_review.  FastAPI runs     *)
(* these plain `def` endpoints in a request thread, with a session of      *)
(* their own, while the /post worker thread runs its tasks.  A request is  *)
(* two steps: it loads its rows, and later it writes and commits; a task   *)
(* of the worker may run in between.                                       *)
(***************************************************************************)
\* db.query(Model).get(id) finds a row
Exists(table, id) == id \in DOMAIN table

\* The UPDATE the session sends at commit for a loaded object: SET names only
\* the attributes assigned since the load (changed); every other column keeps
\* what the store holds now (stored), not what was loaded.
FlushWholeRow(stored, loaded, changed) ==
    [f \in DOMAIN stored |-> IF f \in DOMAIN changed THEN changed[f] ELSE loaded[f]]

Flush(stored, loaded, changed) ==
    [f \in DOMAIN stored |-> IF f \in DOMAIN changed THEN changed[f] ELSE stored[f]]

\* lines 1988-1991: ticket.plate_number/plate_code/plate_city/confidence = ...
CorrectedColumnsAndTrip(correction) ==
    [plate_number |-> correction.plate_number,
     confidence |-> correction.confidence, parkonic_trip_id |-> NULL]

CorrectedColumns(correction) ==
    [plate_number |-> correction.plate_number,
     confidence |-> correction.confidence]

\* lines 1994-1995: review.review_status = "RESOLVED"; review.plate_status = "READ"
ResolvedOnly(row) == [row EXCEPT !.review_status = "RESOLVED"]

ReadOnly(row) == [row EXCEPT !.plate_status = "READ"]

ResolvedRead(row) ==
    [row EXCEPT !.review_status = "RESOLVED", !.plate_status = "READ"]

\* lines 2065-2066: if ticket and ticket.exit_time is None:
\*                      ticket.exit_time = ticket.entry_time
DismissCloses(m) == m.ticket_id # NULL /\ m.ticket.exit_time = NULL

DismissedColumns(ticket) == [exit_time |-> ticket.entry_time]

\* the request answers: raise HTTPException(status, detail), or return
Answered(m, status, result) ==
    [m EXCEPT !.stage = "done", !.status = status, !.result = result]

ManualAttempted(m, c) ==
    [m EXCEPT !.commits = @ \o CommitsMade(c),
              !.store = IF c[1] = "ok" THEN @ ELSE "failed"]

\* lines 1998-2046: the images and the pole are collected (prepared: "ok", or
\* "raise" when no image can be read or the pole query fails), then
\* park_in_request is called; its answer is not used, and every exception in
\* here is caught and logged
CorrectNotifyBilling(m, id, ticket) ==
    LET call(answer) ==
            [op |-> "park_in",
             trip_id |-> IF answer = "trip_id" THEN Cardinality(SeedIds) + 1
                         ELSE NULL,
             time |-> ticket.entry_time, ticket_id |-> id, answer |-> answer]
    IN  { [m EXCEPT !.prepared = "raise"] }
            \cup { [m EXCEPT !.prepared = "ok", !.billing = Append(@, call(answer))]
                   : answer \in {"raise", "no_trip_id", "trip_id"} }

\* lines 1988-2049, after the rows were loaded.  A commit that is lost once
\* leaves the session rolled back and closed: the object's change is dropped,
\* later changes are made to detached objects and written by no commit, and
\* reading ticket.image_base64 raises inside the try block of the billing
\* call, so that park_in_request is not reached.
correct_manual_review(m, tk, rv) ==
    LET id == m.ticket_id
        rid == m.review_id
        m0 == [m EXCEPT !.stale = tk[id] # m.ticket]
        out(t, r, mm) == [tickets |-> t, reviews |-> r, manual |-> mm]
    IN  UNION {
          LET d1 == _retry_commit(FALSE, c1[1], c1[2])
              m1 == ManualAttempted(m0, c1)
          IN  IF d1 = "raise"
              THEN { out(tk, rv, Answered(m1, 500, "OperationalError")) }
              ELSE IF d1 = "discarded"
              THEN { out(tk, rv, Answered(m1, 200, "updated")) }
              ELSE LET tk1 == [tk EXCEPT ![id] =
                                  Flush(tk[id], m.ticket,
                                        CorrectedColumns(m.correction))]
                   IN  UNION {
                         LET d2 == _retry_commit(FALSE, c2[1], c2[2])
                             m2 == ManualAttempted(m1, c2)
                         IN  IF d2 = "raise"
                             THEN { out(tk1, rv,
                                        Answered(m2, 500, "OperationalError")) }
                             ELSE IF d2 = "discarded"
                             THEN { out(tk1, rv, Answered(m2, 200, "updated")) }
                             ELSE { out(tk1,
                                        [rv EXCEPT ![rid] = ResolvedRead(rv[rid])],
                                        Answered(b, 200, "updated"))
                                    : b \in CorrectNotifyBilling(m2, id, tk1[id]) }
                         : c2 \in CommitAttempts }
          : c1 \in CommitAttempts }

\* lines 2069-2071: review.review_status = "RESOLVED"; commit; return
DismissResolve(m, tk, rv) ==
    { LET d2 == _retry_commit(FALSE, c2[1], c2[2])
          m2 == ManualAttempted(m, c2)
      IN  IF d2 = "raise"
          THEN [tickets |-> tk, reviews |-> rv,
                manual |-> Answered(m2, 500, "OperationalError")]
          ELSE IF d2 = "discarded"
          THEN [tickets |-> tk, reviews |-> rv,
                manual |-> Answered(m2, 200, "dismissed")]
          ELSE [tickets |-> tk,
                reviews |-> [rv EXCEPT ![m.review_id].review_status = "RESOLVED"],
                manual |-> Answered(m2, 200, "dismissed")]
      : c2 \in CommitAttempts }

\* lines 2065-2071, after the rows were loaded
dismiss_manual_review(m, tk, rv) ==
    LET id == m.ticket_id
        m0 == [m EXCEPT !.stale = id # NULL /\ tk[id] # m.ticket]
    IN  IF ~DismissCloses(m) THEN DismissResolve(m0, tk, rv)
        ELSE UNION {
               LET d1 == _retry_commit(FALSE, c1[1], c1[2])
                   m1 == ManualAttempted(m0, c1)
               IN  IF d1 = "raise"
                   THEN { [tickets |-> tk, reviews |-> rv,
                           manual |-> Answered(m1, 500, "OperationalError")] }
                   \* the review is detached now: no later commit writes it
                   ELSE IF d1 = "discarded"
                   THEN { [tickets |-> tk, reviews |-> rv,
                           manual |-> Answered(m1, 200, "dismissed")] }
                   ELSE DismissResolve(
                            [m1 EXCEPT !.closed = TRUE],
                            [tk EXCEPT ![id] = Flush(tk[id], m.ticket,
                                                     DismissedColumns(m.ticket))],
                            rv)
               : c1 \in CommitAttempts }

\* The stores a manual-review request meets: an UNREAD ticket with its PENDING
\* review, a READ ticket (with trip id) with its RESOLVED review, a review
\* without ticket (READ entry that got no trip id), and a review whose ticket
\* was deleted through DELETE /tickets/{id}.
SeedReviewed ==
    { [tickets |-> <<TicketRow(1, 1, "UNKNOWN", 0, entry, NULL)>>,
       reviews |-> <<[ReviewRow(1, 1, entry, "UNREAD") EXCEPT !.ticket_id = 1]>>]
      : entry \in Times }
    \cup
    { [tickets |-> <<TicketRow(1, 1, "AAA", 90, entry, 1)>>,
       reviews |-> <<[ReviewRow(1, 1, entry, "READ") EXCEPT !.ticket_id = 1]>>]
      : entry \in Times }
    \cup
    { [tickets |-> <<>>, reviews |-> <<ReviewRow(1, 1, 1, "READ")>>],
      [tickets |-> <<>>,
       reviews |-> <<[ReviewRow(1, 1, 1, "READ") EXCEPT !.ticket_id = 1]>>] }

\* One /post event runs beside the manual-review request: the requests
\* received before it were refused (see Refuse).
InitReview ==
    /\ \E seed \in SeedReviewed : tickets = seed.tickets /\ reviews = seed.reviews
    /\ POST_QUEUE = <<>>
    /\ fut = [i \in EventIds |-> IF i < MaxEvents THEN "refused" ELSE "none"]
    /\ worker = "idle"
    /\ current = NoTask
    /\ billing = <<>>
    /\ last = NoLast
    /\ http = NoRequest
    /\ manual = NoManual
    /\ stream = NoStream

\* lines 1978-1986: the review and its ticket are loaded
CorrectRead ==
    /\ manual.op = "none"
    /\ \E rid \in 1..(Len(reviews) + 1), correction \in Corrections :
         LET m == [NoManual EXCEPT !.op = "correct", !.review_id = rid,
                                   !.correction = correction]
         IN  manual' =
               IF ~Exists(reviews, rid)
               THEN Answered(m, 404, "Review not found")
               ELSE IF reviews[rid].ticket_id = NULL
               THEN Answered(m, 400, "No associated ticket")
               ELSE IF ~Exists(tickets, reviews[rid].ticket_id)
               THEN Answered(m, 404, "Ticket not found")
               ELSE [m EXCEPT !.stage = "read",
                              !.ticket_id = reviews[rid].ticket_id,
                              !.ticket = tickets[reviews[rid].ticket_id]]
    /\ UNCHANGED <<tickets, reviews, POST_QUEUE, fut, worker, current, billing,
                   last, http, stream>>

\* lines 1988-2049
CorrectWrite ==
    /\ manual.op = "correct"
    /\ manual.stage = "read"
    /\ \E out \in correct_manual_review(manual, tickets, reviews) :
          /\ tickets' = out.tickets
          /\ reviews' = out.reviews
          /\ manual' = out.manual
          /\ billing' = billing \o out.manual.billing
    /\ UNCHANGED <<POST_QUEUE, fut, worker, current, last, http, stream>>

\* lines 2059-2065: the review and, if it has one, its ticket are loaded
DismissRead ==
    /\ manual.op = "none"
    /\ \E rid \in 1..(Len(reviews) + 1) :
         LET m == [NoManual EXCEPT !.op = "dismiss", !.review_id = rid]
             id == reviews[rid].ticket_id
         IN  manual' =
               IF ~Exists(reviews, rid)
               THEN Answered(m, 404, "Review not found")
               ELSE IF id # NULL /\ Exists(tickets, id)
               THEN [m EXCEPT !.stage = "read", !.ticket_id = id,
                              !.ticket = tickets[id]]
               ELSE [m EXCEPT !.stage = "read"]
    /\ UNCHANGED <<tickets, reviews, POST_QUEUE, fut, worker, current, billing,
                   last, http, stream>>

\* lines 2065-2071
DismissWrite ==
    /\ manual.op = "dismiss"
    /\ manual.stage = "read"
    /\ \E out \in dismiss_manual_review(manual, tickets, reviews) :
          /\ tickets' = out.tickets
          /\ reviews' = out.reviews
          /\ manual' = out.manual
    /\ UNCHANGED <<POST_QUEUE, fut, worker, current, billing, last, http, stream>>

NextReview ==
    \/ Submit \/ WorkerGet \/ WorkerRun
    \/ CorrectRead \/ CorrectWrite \/ DismissRead \/ DismissWrite

SpecReview == InitReview /\ [][NextReview]_vars

(***************************************************************************)
(* Properties.  `last` is the task the worker processed last: its payload  *)
(* (last.ev), the tables before it (last.before, last.reviews_before) and  *)
(* its run (last.run: the tables after it, the calls it made, its result). *)
(***************************************************************************)
\* the open tickets (exit_time NULL) of a spot in a tickets table
OpenTickets(tk, cam, spot) ==
    { i \in DOMAIN tk : /\ tk[i].camera_id = cam
                        /\ tk[i].spot_number = spot
                        /\ tk[i].exit_time = NULL }

SameKey(e1, e2) ==
    e1.camera_id = e2.camera_id /\ e1.spot_number = e2.spot_number

\* the last task was a well-formed event with this occupancy
Processed(occupancy) ==
    /\ last.id # 0
    /\ last.ev.shape = "ok"
    /\ last.ev.occupancy = occupancy

\* the last task read and wrote the store without a store error
NoStoreError == last.run.store = "ok"

\* the last task did not fail on the temporary copy of the snapshot
NoFileError == last.run.result # "OSError"

LastOpenBefore == OpenTickets(last.before, last.ev.camera_id, last.ev.spot_number)
LastOpenAfter == OpenTickets(tickets, last.ev.camera_id, last.ev.spot_number)

\* C1 (the invariant alone): every spot has at most one open ticket.
AtMostOneOpenTicket ==
    \A cam \in Cameras, spot \in Spots :
        Cardinality(OpenTickets(tickets, cam, spot)) <= 1

\* C1: every spot has at most one open ticket in every reachable state, and
\* an occupied event for a spot without an open ticket (an ENTRY, snapshot
\* decoded, no store error) leaves exactly one open ticket for the spot, so
\* that of several ENTRY submissions one creates the ticket and the others
\* are duplicates.
C1_OneOpenTicketPerSpot ==
    /\ AtMostOneOpenTicket
    /\ ( /\ Processed(1)
         /\ NoStoreError
         /\ LastOpenBefore = {}
         /\ last.run.result # "Cannot decode snapshot" )
       => Cardinality(LastOpenAfter) = 1

\* C2: events of one (camera, spot) key are processed in submission order:
\* while a task is in progress, every task of the same key that is still
\* queued was submitted after it (ids are given in submission order), and
\* every task submitted before it has left the queue.
C2_SameKeyInSubmissionOrder ==
    worker = "busy" =>
        \A k \in DOMAIN POST_QUEUE :
            SameKey(POST_QUEUE[k].ev, current.ev) => POST_QUEUE[k].id > current.id

\* C2 witness: the first event of a key is done and the second event of the
\* same key is in progress.
C2_Witness ==
    /\ last.id = 1
    /\ worker = "busy"
    /\ current.id = 2
    /\ last.ev.shape = "ok"
    /\ SameKey(last.ev, current.ev)

C4_FailedTaskDoesNotStopWorker ==
    (last.id # 0 /\ last.run.raised) =>
        /\ fut[last.id] = "exception"
        /\ worker \in {"idle", "busy"}
        /\ (worker = "idle" /\ POST_QUEUE # <<>>) => ENABLED WorkerGet
        /\ \A i \in EventIds \ {last.id} :
              /\ fut[i] \in {"result", "exception"} => fut[i] = last.fut_before[i]
              /\ last.fut_before[i] = "pending" =>
                    \/ \E k \in DOMAIN POST_QUEUE : POST_QUEUE[k].id = i
                    \/ current.id = i

\* C4 witness: a task raised and the worker has taken the task queued after it.
C4_Witness ==
    /\ last.id = 1
    /\ last.run.raised
    /\ fut[1] = "exception"
    /\ worker = "busy"
    /\ current.id = 2

\* C5: a well-formed event processed without a store error or file error
\* takes exactly one of the five branches of the reconciler, and no event
\* both adds a ticket and closes one.
C5_ExactlyOneClassification ==
    (last.id # 0 /\ last.ev.shape = "ok" /\ NoStoreError /\ NoFileError) =>
        /\ \E c \in {"duplicate-ENTRY", "ENTRY", "false-clear", "EXIT",
                     "no-ticket-NOOP"} : last.run.class = {c}
        /\ ~ ( /\ Len(last.run.tickets) > Len(last.before)
               /\ \E i \in DOMAIN last.before :
                     /\ last.before[i].exit_time = NULL
                     /\ last.run.tickets[i].exit_time # NULL )

\* C5 witness: an event was classified EXIT and closed a ticket.
C5_Witness ==
    /\ Processed(0)
    /\ NoStoreError
    /\ last.run.class = {"EXIT"}
    /\ \E i \in DOMAIN last.before :
          last.before[i].exit_time = NULL /\ tickets[i].exit_time # NULL

\* C6: an occupied event for a spot that has an open ticket returns "Spot
\* already occupied", adds no ticket and no manual review, leaves every
\* ticket as it was, and calls neither the vision services nor billing.
C6_DuplicateEntryIsNoop ==
    (Processed(1) /\ NoStoreError /\ LastOpenBefore # {}) =>
        /\ ~last.run.raised
        /\ last.run.result = "Spot already occupied"
        /\ last.run.tickets = last.before
        /\ last.run.reviews = last.reviews_before
        /\ last.run.calls = <<>>
        /\ last.run.billing = <<>>

\* C6 witness: an occupied event was processed for a spot with an open ticket.
C6_Witness ==
    /\ Processed(1)
    /\ NoStoreError
    /\ LastOpenBefore # {}
    /\ last.run.class = {"duplicate-ENTRY"}

\* C7 (as claimed): a vacant event for a spot without an open ticket returns
\* "No open ticket to close", whatever the vehicle detector answers.
C7_NoTicketAlwaysNoop ==
    (Processed(0) /\ NoStoreError /\ NoFileError /\ LastOpenBefore = {}) =>
        last.run.result = "No open ticket to close"

\* C7 (amended): a vacant event for a spot without an open ticket returns
\* "Spot still occupied" when the vehicle detector was run and reported a
\* vehicle, and "No open ticket to close" otherwise (store and file errors
\* apart); no ticket changes.
C7_NoTicketNoopUnlessVehicleSeen ==
    (Processed(0) /\ NoStoreError /\ NoFileError /\ LastOpenBefore = {}) =>
        /\ ~last.run.raised
        /\ last.run.result = IF last.run.detector = "car"
                             THEN "Spot still occupied"
                             ELSE "No open ticket to close"
        /\ last.run.tickets = last.before

\* C7 witness: a vacant event for a spot without an open ticket, with a
\* vehicle in the frame.
C7_Witness ==
    /\ Processed(0)
    /\ NoStoreError
    /\ LastOpenBefore = {}
    /\ last.run.detector = "car"
    /\ last.run.result = "Spot still occupied"

\* C8: a vacant event for a spot without an open ticket adds no ticket,
\* changes no field of any ticket and makes no billing call, however often it
\* is submitted.
C8_ExitWithoutTicketChangesNothing ==
    (Processed(0) /\ LastOpenBefore = {}) =>
        /\ last.run.tickets = last.before
        /\ last.run.reviews = last.reviews_before
        /\ last.run.billing = <<>>

\* C8 witness: the second vacant event of a spot, whose ticket the first one
\* closed, was processed.
C8_Witness ==
    /\ Processed(0)
    /\ last.id = 2
    /\ LastOpenBefore = {}
    /\ \E i \in DOMAIN tickets :
          /\ tickets[i].camera_id = last.ev.camera_id
          /\ tickets[i].spot_number = last.ev.spot_number
          /\ tickets[i].exit_time # NULL
          /\ tickets[i].exit_time # last.ev.time

\* C9: a vacant event for a spot with an open ticket whose frame shows a
\* vehicle leaves the ticket open, makes no CloseTrip call and returns "Spot
\* still occupied".
C9_FalseClearSuppressed ==
    (Processed(0) /\ LastOpenBefore # {} /\ last.run.detector = "car") =>
        /\ ~last.run.raised
        /\ last.run.result = "Spot still occupied"
        /\ last.run.tickets = last.before
        /\ last.run.billing = <<>>
        /\ \A i \in LastOpenBefore : last.run.tickets[i].exit_time = NULL

\* C9 witness: a false clear was processed for a spot with an open ticket
\* that carries a trip id.
C9_Witness ==
    /\ Processed(0)
    /\ last.run.detector = "car"
    /\ \E i \in LastOpenBefore : last.before[i].parkonic_trip_id # NULL

\* C10: a vacant event for a spot with an open ticket, with no vehicle
\* detected, no store error and no file error, sets the ticket's exit_time to
\* the event's time, leaves the spot without an open ticket and returns
\* "Exit recorded".
C10_ExitClosesTicket ==
    ( /\ Processed(0)
      /\ NoStoreError
      /\ NoFileError
      /\ LastOpenBefore # {}
      /\ last.run.detector = "nocar" ) =>
        /\ ~last.run.raised
        /\ last.run.result = "Exit recorded"
        /\ \A i \in LastOpenBefore : last.run.tickets[i].exit_time = last.ev.time
        /\ OpenTickets(last.run.tickets, last.ev.camera_id, last.ev.spot_number) = {}

\* C10 witness: an exit was recorded at a time other than the entry time.
C10_Witness ==
    /\ Processed(0)
    /\ NoStoreError
    /\ last.run.detector = "nocar"
    /\ \E i \in LastOpenBefore :
          /\ tickets[i].exit_time = last.ev.time
          /\ tickets[i].exit_time # tickets[i].entry_time

\* the ticket that was open for the last event's spot before the event
LastTicketBefore ==
    OpenTicket(last.before, last.ev.camera_id, last.ev.spot_number)

\* C11: a vacant event for a spot with an open ticket, handled without a
\* store error, for which no frame could be had (neither the camera clip nor
\* the event's snapshot) or for which the vehicle detector raised, is an
\* EXIT: the ticket is closed at the event's time and the task returns
\* "Exit recorded" instead of failing or staying unprocessed.
C11_FrameOrDetectorFailureIsExit ==
    ( /\ Processed(0)
      /\ NoStoreError
      /\ LastOpenBefore # {}
      /\ last.run.detector \in {"notcalled", "raise"} )
    => /\ last.run.class = {"EXIT"}
       /\ ~last.run.raised
       /\ last.run.result = "Exit recorded"
       /\ LastOpenAfter = {}
       /\ tickets[LastTicketBefore].exit_time = last.ev.time

\* C11 (what does hold): the same, for the events whose snapshot copy was
\* written or skipped without an error.
C11_ExitUnlessSnapshotSaveRaises ==
    ( /\ Processed(0)
      /\ NoStoreError
      /\ NoFileError
      /\ LastOpenBefore # {}
      /\ last.run.detector \in {"notcalled", "raise"} )
    => /\ last.run.class = {"EXIT"}
       /\ last.run.result = "Exit recorded"
       /\ LastOpenAfter = {}

\* C18: on a recorded EXIT park_out_request is called exactly when the closed
\* ticket carries a trip id, once, with that trip id and the event's time;
\* a ticket without trip id is closed without any billing call, and a vacant
\* event that records no EXIT makes no billing call.
C18_CloseTripIffTripId ==
    /\ ( Processed(0) /\ NoStoreError /\ "EXIT" \in last.run.class )
       => LET trip == last.before[LastTicketBefore].parkonic_trip_id
              calls == last.run.billing
          IN  IF trip # NULL
              THEN /\ Len(calls) = 1
                   /\ calls[1].op = "park_out"
                   /\ calls[1].trip_id = trip
                   /\ calls[1].time = last.ev.time
              ELSE calls = <<>>
    /\ ( Processed(0) /\ "EXIT" \notin last.run.class )
       => last.run.billing = <<>>

\* C18 witness: an EXIT closed a ticket that carries a trip id and billing
\* got the park-out call for that trip.
C18_Witness ==
    /\ Processed(0)
    /\ "EXIT" \in last.run.class
    /\ last.before[LastTicketBefore].parkonic_trip_id # NULL
    /\ Len(last.run.billing) = 1
    /\ last.run.billing[1].answer = "ok"

\* C19: when park_out_request raises during an EXIT, the ticket stays closed
\* with the event's time as exit_time, the task still returns
\* "Exit recorded", and the event made that one park-out call only.
C19_CloseTripFailureKeepsTicketClosed ==
    ( /\ Processed(0)
      /\ \E k \in DOMAIN last.run.billing : last.run.billing[k].answer = "raise" )
    => /\ ~last.run.raised
       /\ last.run.result = "Exit recorded"
       /\ Len(last.run.billing) = 1
       /\ tickets[last.run.billing[1].ticket_id].exit_time = last.ev.time
       /\ LastOpenAfter = {}

\* C19 witness: the park-out call of an EXIT raised.
C19_Witness ==
    /\ Processed(0)
    /\ Len(last.run.billing) = 1
    /\ last.run.billing[1].op = "park_out"
    /\ last.run.billing[1].answer = "raise"
    /\ last.run.result = "Exit recorded"

\* C20: a request with max_retries = 2 makes at most three POST attempts and
\* stops at the first one that succeeds: if one of the three succeeds the
\* caller gets its text, after exactly that many attempts (so two failures,
\* errors or timeouts, and a success give the success); if all three fail
\* the caller gets the exception, never a success.
C20_AtMostThreeAttempts ==
    (http.result # "none" /\ http.max_retries = MAX_RETRIES) =>
        LET ok == { k \in 1..(MAX_RETRIES + 1) : http.outcomes[k] = "ok" } IN
        /\ http.attempts <= MAX_RETRIES + 1
        /\ IF ok = {}
           THEN http.result = "raise" /\ http.attempts = MAX_RETRIES + 1
           ELSE /\ http.result = "text"
                /\ http.attempts \in ok
                /\ \A k \in ok : http.attempts <= k

\* C20 witness: an error, then a timeout, then a success on the third
\* attempt, returned to the caller.
C20_Witness ==
    /\ http.max_retries = MAX_RETRIES
    /\ http.outcomes = <<"http_error", "timeout", "ok">>
    /\ http.attempts = 3
    /\ http.result = "text"

\* C32: when a request has ended, one wait was made after each failed
\* attempt but the last attempt: after failed attempt k (counted from 0) the
\* wait is backoff * 2^k, so 1 then 2 for backoff 1 and two retries; there is
\* no wait after the attempt that succeeded nor after the failed attempt that
\* ended the call.
C32_BackoffSchedule ==
    http.result # "none" =>
        /\ Len(http.sleeps) = http.attempts - 1
        /\ \A k \in 0..(http.attempts - 2) :
              http.sleeps[k + 1] = http.backoff * (2 ^ k)
        /\ (http.backoff = BACKOFF /\ http.max_retries = MAX_RETRIES
                /\ http.result = "raise") => http.sleeps = <<1, 2>>

\* C32 witness: three failed attempts with backoff 1 and two retries; the
\* call waited 1, then 2, and raised without a third wait.
C32_Witness ==
    /\ http.result = "raise"
    /\ http.backoff = BACKOFF
    /\ http.max_retries = MAX_RETRIES
    /\ http.attempts = 3
    /\ http.sleeps = <<1, 2>>

(***************************************************************************)
(* Properties of the ticket lifecycle (SpecLifecycle).  An ENTRY is an      *)
(* occupied event for a spot that had no open ticket before it.             *)
(***************************************************************************)
\* the park-in calls the last event made to the billing gateway
LastParkIn ==
    { k \in DOMAIN last.run.billing : last.run.billing[k].op = "park_in" }

\* a plate attempt that reads the plate
IsRead(reading) == PlateOf(reading, "", NoPlate).status = "READ"

\* C12: whenever park_in_request is called for an ENTRY event, an open
\* ticket of the spot is already in the store.
C12_TicketPersistedBeforeOpenTrip ==
    (Processed(1) /\ LastOpenBefore = {}) =>
        \A k \in LastParkIn : last.run.billing[k].ticket_id # NULL

\* C13: an ENTRY event whose plate is READ and whose park-in call returned a
\* trip id leaves (store errors apart) exactly one open ticket for the spot,
\* with that trip id, the event's time as entry_time and the plate read.
C13_ReadEntryGetsTicketWithTripId ==
    ( /\ Processed(1)
      /\ LastOpenBefore = {}
      /\ NoStoreError
      /\ last.run.plate.status = "READ"
      /\ \E k \in LastParkIn : last.run.billing[k].answer = "trip_id" )
    => /\ Cardinality(LastOpenAfter) = 1
       /\ \A i \in LastOpenAfter :
             /\ \E k \in LastParkIn :
                   tickets[i].parkonic_trip_id = last.run.billing[k].trip_id
             /\ tickets[i].parkonic_trip_id # NULL
             /\ tickets[i].entry_time = last.ev.time
             /\ tickets[i].plate_number = last.run.plate.number

\* C13 witness: a READ entry got its ticket with the trip id of the gateway.
C13_Witness ==
    /\ Processed(1)
    /\ LastOpenBefore = {}
    /\ last.run.plate.status = "READ"
    /\ Len(last.run.billing) = 1
    /\ last.run.billing[1].answer = "trip_id"
    /\ \E i \in LastOpenAfter :
          tickets[i].parkonic_trip_id = last.run.billing[1].trip_id

\* C14: a READ ENTRY event whose park-in call raised or returned no trip id
\* still leaves (store errors apart) an open ticket for the spot, without
\* trip id.
C14_TicketKeptWithoutTripId ==
    ( /\ Processed(1)
      /\ LastOpenBefore = {}
      /\ NoStoreError
      /\ last.run.plate.status = "READ"
      /\ \E k \in LastParkIn :
            last.run.billing[k].answer \in {"raise", "no_trip_id"} )
    => /\ Cardinality(LastOpenAfter) = 1
       /\ \A i \in LastOpenAfter : tickets[i].parkonic_trip_id = NULL

\* C15: the plate an event ends with is READ exactly when the confidence of
\* its final attempt is an OCR confidence of at least T_CONF.  A final
\* confidence of T_CONF - 1 is UNREAD: a PENDING manual review and no
\* park-in call; a final confidence of T_CONF is READ: a RESOLVED review and
\* a park-in call (the review and the call, store errors apart).
C15_ReadIffConfidenceAtLeastFive ==
    (Processed(1) /\ last.run.plate.status # "") =>
        LET final == last.run.readings[Len(last.run.readings)]
            review == reviews[Len(reviews)]
        IN  /\ last.run.plate.status = "READ"
                  <=> (final.kind = "conf" /\ final.conf >= T_CONF)
            /\ (final.kind = "conf" /\ final.conf = T_CONF - 1)
                  => /\ last.run.plate.status = "UNREAD"
                     /\ LastParkIn = {}
                     /\ NoStoreError => /\ Len(reviews) > Len(last.reviews_before)
                                         /\ review.plate_status = "UNREAD"
                                         /\ review.review_status = "PENDING"
            /\ (final.kind = "conf" /\ final.conf = T_CONF)
                  => /\ last.run.plate.status = "READ"
                     /\ NoStoreError => /\ Cardinality(LastParkIn) = 1
                                         /\ review.plate_status = "READ"

\* C15 witness: a first attempt with confidence T_CONF - 1, a second with
\* confidence T_CONF, and the park-in call of the READ path.
C15_Witness ==
    /\ Processed(1)
    /\ Len(last.run.readings) = 2
    /\ last.run.readings[1] = [kind |-> "conf", conf |-> T_CONF - 1]
    /\ last.run.readings[2] = [kind |-> "conf", conf |-> T_CONF]
    /\ last.run.plate.status = "READ"
    /\ Cardinality(LastParkIn) = 1

\* the calls of one kind the last event made
LastCalls(what) ==
    { k \in DOMAIN last.run.calls : last.run.calls[k] = what }

\* C16: an event makes at most two plate attempts.  The second one, on one
\* freshly fetched camera frame, is started exactly when the first attempt
\* ended UNREAD; the frame is fetched at most once; and a second attempt that
\* reads the plate puts the event on the READ path with its plate.
C16_AtMostOneRetry ==
    Processed(1) =>
        LET readings == last.run.readings
            first_unread == /\ Len(readings) >= 1
                            /\ readings[1].kind # "raise"
                            /\ ~IsRead(readings[1])
        IN  /\ Len(readings) <= 2
            /\ Cardinality(LastCalls("read_plate")) <= 2
            /\ Cardinality(LastCalls("fetch_camera_frame")) <= 1
            /\ (LastCalls("fetch_camera_frame") # {}) <=> first_unread
            /\ Len(readings) = 2 => first_unread
            /\ (Len(readings) = 2 /\ IsRead(readings[2]))
                  => /\ last.run.plate = PlateOf(readings[2], "XYZ", NoPlate)
                     /\ NoStoreError => Cardinality(LastParkIn) = 1

\* C16 witness: the first attempt found no plate, the second one read it, and
\* the event went the READ path with the second plate.
C16_Witness ==
    /\ Processed(1)
    /\ Len(last.run.readings) = 2
    /\ last.run.readings[1].kind = "noplate"
    /\ IsRead(last.run.readings[2])
    /\ last.run.plate.number = "XYZ"
    /\ Cardinality(LastParkIn) = 1

\* C17: an ENTRY event whose plate is UNREAD after the retry leaves (store
\* errors apart) one open ticket for the spot, without trip id and with the
\* event's time as entry_time, and a manual review that is UNREAD, PENDING
\* and linked to that ticket; it makes no park-in call.
C17_UnreadEntryGetsTicketAndReview ==
    ( /\ Processed(1)
      /\ LastOpenBefore = {}
      /\ last.run.plate.status = "UNREAD" )
    => /\ LastParkIn = {}
       /\ NoStoreError =>
             /\ Cardinality(LastOpenAfter) = 1
             /\ Len(reviews) = Len(last.reviews_before) + 1
             /\ \A i \in LastOpenAfter :
                   /\ tickets[i].parkonic_trip_id = NULL
                   /\ tickets[i].entry_time = last.ev.time
                   /\ i \notin DOMAIN last.before
                   /\ reviews[Len(reviews)].ticket_id = i
             /\ reviews[Len(reviews)].plate_status = "UNREAD"
             /\ reviews[Len(reviews)].review_status = "PENDING"

\* C17 witness: both attempts failed to read the plate; the ticket and the
\* pending review linked to it are in the store.
C17_Witness ==
    /\ Processed(1)
    /\ LastOpenBefore = {}
    /\ Len(last.run.readings) = 2
    /\ last.run.plate.status = "UNREAD"
    /\ Cardinality(LastOpenAfter) = 1
    /\ reviews[Len(reviews)].review_status = "PENDING"
    /\ reviews[Len(reviews)].ticket_id \in LastOpenAfter

(***************************************************************************)
(* Store failures, vision failures, results, malformed events               *)
(***************************************************************************)
\* C21 (as claimed): a ticket close whose commit is lost is attempted at
\* most twice; when the second attempt succeeds the ticket is closed at the
\* event's time and the caller gets a result; when it fails too the caller gets
\* an error.
C21_LostCommitRetriedOnceAndTakesEffect ==
    (Processed(0) /\ last.run.class = {"EXIT"} /\ last.run.commits # <<>>) =>
        /\ Len(last.run.commits) <= 2
        /\ last.run.commits = <<"lost", "lost">> => last.run.raised
        /\ last.run.commits = <<"lost", "ok">> =>
              /\ ~last.run.raised
              /\ last.run.tickets[LastTicketBefore].exit_time = last.ev.time

\* C22 (as claimed): an occupied event for a vacant spot whose plate reading
\* raised (the OCR request failed after its retries), handled without a store
\* error, leaves one open ticket for the spot with a PENDING manual review.
C22_OcrFailureHandledAsUnread ==
    (/\ Processed(1)
     /\ NoStoreError
     /\ LastOpenBefore = {}
     /\ \E k \in DOMAIN last.run.readings : last.run.readings[k].kind = "raise"
     /\ \A k \in DOMAIN last.run.readings : ~IsRead(last.run.readings[k]))
    => /\ Cardinality(LastOpenAfter) = 1
       /\ \E r \in DOMAIN reviews :
             /\ reviews[r].review_status = "PENDING"
             /\ reviews[r].ticket_id \in LastOpenAfter

\* C28 (as claimed): a well-formed event handled without a store error (and
\* without a failure to save the snapshot) ends with one of the five results;
\* an occupied event for a spot without open ticket whose snapshot decodes
\* ends with the entry result.
C28_OneOfTheContractResults ==
    (/\ last.id # 0
     /\ last.ev.shape = "ok"
     /\ NoStoreError
     /\ NoFileError
     /\ last.run.result # "Cannot decode snapshot")
    => /\ ~last.run.raised
       /\ last.run.result \in {"Exit recorded", "No open ticket to close",
                                "Spot already occupied", "Spot still occupied",
                                "Entry queued for processing"}
       /\ (last.ev.occupancy = 1 /\ LastOpenBefore = {})
             => last.run.result = "Entry queued for processing"

\* C29 (as claimed): an event that lacks a required field or whose
\* parking_area identifies no camera, handled without a store error, ends with
\* a 400 error in its own Future, with both tables as before and no vision or
\* billing call.
C29_MalformedEventRejected ==
    (last.id # 0 /\ last.ev.shape # "ok" /\ NoStoreError) =>
        /\ last.run.raised
        /\ last.run.status = 400
        /\ fut[last.id] = "exception"
        /\ last.run.tickets = last.before
        /\ last.run.reviews = last.reviews_before
        /\ last.run.calls = <<>>
        /\ last.run.billing = <<>>

\* C29 (what holds): every malformed event but the one whose parking_area is
\* not a string is rejected as C29 says.
C29_RejectedUnlessNotString ==
    (last.id # 0 /\ last.ev.shape = "notstring") \/ C29_MalformedEventRejected

(***************************************************************************)
(* The sequencer: every Future is completed                                 *)
(***************************************************************************)
Completed(i) == fut[i] \in {"result", "exception"}

\* C30: every submitted event (its Future pending) is eventually taken by the
\* worker and its Future eventually completed, with a result or an exception;
\* a completed Future is never completed again or changed, and a pending one
\* changes only by being completed.
C30_EverySubmittedEventCompleted ==
    /\ \A i \in EventIds :
          /\ (fut[i] = "pending") ~> (current.id = i)
          /\ (fut[i] = "pending") ~> Completed(i)
    /\ [][\A i \in EventIds :
             /\ Completed(i) => fut'[i] = fut[i]
             /\ (fut[i] = "pending" /\ fut'[i] # "pending") =>
                   /\ current.id = i
                   /\ Completed(i)']_vars

\* C30 witness: two events were submitted, the first one failed and the
\* second one, queued behind it, was completed with a result.
C30_Witness ==
    /\ fut[1] = "exception"
    /\ fut[2] = "result"
    /\ POST_QUEUE = <<>>
    /\ last.id = 2

(***************************************************************************)
(* Manual-review requests beside the /post worker (SpecReview).  `manual`  *)
(* is the request: the row it loaded (manual.ticket), whether the store    *)
(* held another row when it wrote (manual.stale), whether it wrote an      *)
(* exit_time (manual.closed), its commits, its billing call, its answer.   *)
(***************************************************************************)
ParkOutCalls(id) ==
    { k \in DOMAIN billing : billing[k].op = "park_out" /\ billing[k].ticket_id = id }

\* C23 (as claimed): no spot has two open tickets, no ticket has more than one
\* park_out call, and no ticket is closed twice: a dismissal never writes an
\* exit_time to a ticket that was closed after the dismissal loaded it.
C23_NoDoubleOpenNoDoubleClose ==
    /\ AtMostOneOpenTicket
    /\ \A id \in DOMAIN tickets : Cardinality(ParkOutCalls(id)) <= 1
    /\ ~(manual.op = "dismiss" /\ manual.closed /\ manual.stale)

\* C24 (as claimed): no step deletes a ticket or changes an exit_time that is
\* set.
C24_ClosureIsTerminal ==
    [][\A id \in DOMAIN tickets :
          /\ id \in DOMAIN tickets'
          /\ tickets[id].exit_time # NULL =>
                tickets'[id].exit_time = tickets[id].exit_time]_vars

\* C24 (what holds): an exit_time that is set is changed by no step but the
\* write of a dismissal that loaded the ticket while it was open.
C24_TerminalButForDismissalInFlight ==
    [][\A id \in DOMAIN tickets :
          /\ id \in DOMAIN tickets'
          /\ (tickets[id].exit_time # NULL
              /\ tickets'[id].exit_time # tickets[id].exit_time) =>
                /\ manual.op = "dismiss"
                /\ manual.stage = "read"
                /\ manual.ticket_id = id
                /\ manual.ticket.exit_time = NULL]_vars

\* C25: when a correction has answered "updated" without a store error and
\* the last task was an EXIT that closed the same ticket without a store
\* error, in whatever order the two wrote, the ticket has the exit_time of the
\* EXIT and the plate and confidence of the correction.
C25_ExitAndCorrectionBothKept ==
    (/\ manual.op = "correct"
     /\ manual.stage = "done"
     /\ manual.status = 200
     /\ manual.store = "ok"
     /\ Processed(0)
     /\ NoStoreError
     /\ last.run.result = "Exit recorded"
     /\ LastTicketBefore = manual.ticket_id)
    => /\ tickets[manual.ticket_id].exit_time = last.ev.time
       /\ tickets[manual.ticket_id].plate_number = manual.correction.plate_number
       /\ tickets[manual.ticket_id].confidence = manual.correction.confidence

\* C25 witness: the EXIT closed the ticket after the correction had loaded it
\* and before the correction wrote; the ticket has both updates.
C25_Witness ==
    /\ manual.op = "correct"
    /\ manual.stage = "done"
    /\ manual.store = "ok"
    /\ manual.stale
    /\ manual.ticket.exit_time = NULL
    /\ Processed(0)
    /\ last.run.result = "Exit recorded"
    /\ LastTicketBefore = manual.ticket_id
    /\ tickets[manual.ticket_id].exit_time = last.ev.time
    /\ tickets[manual.ticket_id].plate_number = "NEW"

FirstFrame(frames) ==
    IF \A k \in DOMAIN frames : frames[k] = "None" THEN 0
    ELSE CHOOSE k \in DOMAIN frames :
            /\ frames[k] = "frame"
            /\ \A j \in 1..(k - 1) : frames[j] = "None"

\* C31 (as claimed): a call of fetch_camera_frame with max_attempts, whose
\* k-th read is the first to yield a frame (k <= max_attempts) and whose frame
\* encodes, makes exactly k reads and returns the JPEG bytes.
C31_ReadsUntilFirstFrame ==
    (/\ stream.result # "none"
     /\ "max_attempts" \in stream.keywords
     /\ stream.encodes
     /\ FirstFrame(stream.frames) \in 1..stream.max_attempts)
    => /\ stream.reads = FirstFrame(stream.frames)
       /\ stream.result = "bytes"

\* C31 (the calls that bind): a call without max_attempts reads the stream
\* once, whatever the read yields.
C31_OneReadOnly ==
    (stream.result # "none" /\ Binds(stream.keywords, FetchFrameParams))
    => /\ stream.reads = 1
       /\ stream.result = "bytes" <=> (stream.frames[1] = "frame" /\ stream.encodes)

(***************************************************************************)
(* Billing and the ticket's closure                                        *)
(***************************************************************************)
\* C33: every ticket for which park_out_request has been called is closed in
\* the store, and the EXIT that made the call had committed the ticket's
\* exit_time before it: its one commit succeeded and the ticket it handed to
\* billing was closed at the event's time.
C33_ClosedBeforeCloseTrip ==
    /\ \A k \in DOMAIN billing :
          billing[k].op = "park_out"
          => /\ billing[k].ticket_id \in DOMAIN tickets
             /\ tickets[billing[k].ticket_id].exit_time # NULL
             /\ tickets[billing[k].ticket_id].parkonic_trip_id = billing[k].trip_id
    /\ ( Processed(0) /\ last.run.billing # <<>> )
       => /\ last.run.commits = <<"ok">>
          /\ \A k \in DOMAIN last.run.billing :
                last.run.tickets[last.run.billing[k].ticket_id].exit_time
                    = last.ev.time

\* C33 witness: an EXIT committed the closure of a ticket with a trip id and
\* then called park_out_request, which raised; the ticket is closed.
C33_Witness ==
    /\ Processed(0)
    /\ last.run.commits = <<"ok">>
    /\ \E k \in DOMAIN last.run.billing :
          /\ last.run.billing[k].op = "park_out"
          /\ last.run.billing[k].answer = "raise"
          /\ last.before[last.run.billing[k].ticket_id].exit_time = NULL
          /\ tickets[last.run.billing[k].ticket_id].exit_time = last.ev.time

\* the trip ids that park_in_request returned to the last task
LastTripsReturned ==
    { last.run.billing[k].trip_id : k \in { j \in LastParkIn :
                                             last.run.billing[j].answer = "trip_id" } }

\* C34 (as claimed): when the processing of an occupied event has ended,
\* every trip id that park_in_request returned for it is the
\* parkonic_trip_id of a ticket in the store, also when the commit of the
\* ticket's insert failed.
C34_ReturnedTripIdIsOnATicket ==
    Processed(1) =>
        \A trip \in LastTripsReturned :
            \E id \in DOMAIN tickets : tickets[id].parkonic_trip_id = trip

\* C34 (without a failing insert): a returned trip id is on a ticket of the
\* event's spot whenever the commit of the insert was not lost.
C34_OnATicketUnlessInsertFails ==
    ( Processed(1) /\ LastTripsReturned # {}
      /\ Len(last.run.commits) >= 2 /\ last.run.commits[2] = "ok" )
    => \A trip \in LastTripsReturned :
          \E id \in DOMAIN tickets :
              /\ tickets[id].parkonic_trip_id = trip
              /\ tickets[id].camera_id = last.ev.camera_id
              /\ tickets[id].spot_number = last.ev.spot_number

(***************************************************************************)
(* One occupancy of a spot                                                 *)
(***************************************************************************)
\* C35 (as claimed): an occupied event that follows the ENTRY of its spot
\* (snapshot decoded, no EXIT in between) is a duplicate: it is answered
\* "Spot already occupied" and makes no billing call, so that park_in_request
\* is called at most once per occupancy.
C35_LaterOccupiedEventsAreDuplicates ==
    [][ ( /\ Processed(1)
          /\ last.run.class = {"ENTRY"}
          /\ last.run.result # "Cannot decode snapshot"
          /\ last'.id # last.id
          /\ last'.ev.shape = "ok"
          /\ last'.ev.occupancy = 1
          /\ SameKey(last.ev, last'.ev)
          /\ last'.run.store = "ok" )
        => /\ last'.run.class = {"duplicate-ENTRY"}
           /\ last'.run.billing = <<>> ]_vars

\* C35 (the plate lifecycle alone): a call of process_plate_and_issue_ticket
\* that called park_in_request leaves an open ticket for the spot, so that the
\* next occupied event finds it.
C35_ParkInLeavesOpenTicket ==
    ( Processed(1) /\ LastOpenBefore = {} /\ LastParkIn # {} )
    => LastOpenAfter # {}

(***************************************************************************)
(* Trips opened by a manual correction (SpecReview)                        *)
(***************************************************************************)
\* the park_in calls that returned a trip id for this ticket
TripsOpened(id) ==
    { k \in DOMAIN billing : /\ billing[k].op = "park_in"
                             /\ billing[k].answer = "trip_id"
                             /\ billing[k].ticket_id = id }

\* C36 (as claimed): when an EXIT is recorded for a ticket, every trip that a
\* park_in call had opened for that ticket before (the correction was in the
\* store when the EXIT began) gets a park_out call of that EXIT with its trip
\* id.
C36_OpenedTripIsClosedAtExit ==
    ( /\ Processed(0)
      /\ last.run.class = {"EXIT"}
      /\ last.run.result = "Exit recorded"
      /\ last.before[LastTicketBefore].plate_number = "NEW" )
    => \A k \in TripsOpened(LastTicketBefore) :
          \E j \in DOMAIN last.run.billing :
              /\ last.run.billing[j].op = "park_out"
              /\ last.run.billing[j].trip_id = billing[k].trip_id

\* C36 (trips the ticket carries): an EXIT recorded for a ticket with a
\* parkonic_trip_id makes the park_out call for that id, corrected or not.
C36_CarriedTripIsClosedAtExit ==
    ( /\ Processed(0)
      /\ last.run.class = {"EXIT"}
      /\ last.run.result = "Exit recorded"
      /\ last.before[LastTicketBefore].parkonic_trip_id # NULL )
    => \E j \in DOMAIN last.run.billing :
          /\ last.run.billing[j].op = "park_out"
          /\ last.run.billing[j].trip_id =
                 last.before[LastTicketBefore].parkonic_trip_id

\* C37 (as claimed): park_in_request is never called for a ticket that is
\* closed in the store: the step in which a correction makes its billing call
\* starts with the ticket open.
C37_NoOpenTripForClosedTicket ==
    [][ ( manual'.op = "correct" /\ manual'.billing # manual.billing )
        => tickets[manual'.ticket_id].exit_time = NULL ]_vars

\* C37 (a correction alone): a correction whose ticket was open when it was
\* loaded and unchanged when it was written calls park_in_request for an open
\* ticket only.
C37_OpenWhenNothingIntervenes ==
    [][ ( /\ manual'.op = "correct" /\ manual'.billing # manual.billing
          /\ manual.ticket.exit_time = NULL /\ ~manual'.stale )
        => tickets[manual'.ticket_id].exit_time = NULL ]_vars

(***************************************************************************)
(* Entry and exit times                                                    *)
(***************************************************************************)
\* C38 (as claimed): every closed ticket has exit_time >= entry_time, whatever
\* the times of the events.
C38_ExitNotBeforeEntry ==
    \A id \in DOMAIN tickets :
        tickets[id].exit_time # NULL
        => tickets[id].exit_time >= tickets[id].entry_time

\* C38 (the dismissal): a dismissal that closes its ticket writes the
\* ticket's entry_time as exit_time.
C38_DismissalClosesAtEntryTime ==
    [][ ( /\ manual'.op = "dismiss" /\ manual.result = "none"
          /\ manual'.result = "dismissed"
          /\ DismissCloses(manual) /\ manual'.commits[1] = "ok" )
        => tickets'[manual.ticket_id].exit_time
               = tickets'[manual.ticket_id].entry_time ]_vars

(***************************************************************************)
(* The plate lifecycle followed by a manual-review request: one call of    *)
(* process_plate_and_issue_ticket, and one correction or dismissal of a    *)
(* review in the store.                                                    *)
(***************************************************************************)
NextEntryReview ==
    \/ CallProcessPlate
    \/ CorrectRead \/ CorrectWrite \/ DismissRead \/ DismissWrite

SpecEntryReview == Init /\ [][NextEntryReview]_vars

\* the manual_reviews rows that the last task added
LastReviewsAdded == (Len(last.reviews_before) + 1)..Len(last.run.reviews)

\* C39: every manual review whose review_status is PENDING has plate_status
\* UNREAD; a review that the lifecycle adds for a READ plate is added RESOLVED;
\* and a correction whose commits succeed leaves its review RESOLVED and READ.
C39_PendingIsUnread ==
    /\ \A r \in DOMAIN reviews :
          reviews[r].review_status = "PENDING" => reviews[r].plate_status = "UNREAD"
    /\ last.id # 0
       => \A r \in LastReviewsAdded :
             /\ last.run.reviews[r].plate_status = last.run.plate.status
             /\ last.run.reviews[r].plate_status = "READ"
                => last.run.reviews[r].review_status = "RESOLVED"
    /\ ( manual.op = "correct" /\ manual.result = "updated"
         /\ manual.commits = <<"ok", "ok">> )
       => /\ reviews[manual.review_id].review_status = "RESOLVED"
          /\ reviews[manual.review_id].plate_status = "READ"

\* C39 witness: the lifecycle added a PENDING review for an UNREAD plate, and
\* a correction of that review has made it RESOLVED and READ.
C39_Witness ==
    /\ last.id # 0
    /\ last.run.plate.status = "UNREAD"
    /\ manual.op = "correct"
    /\ manual.result = "updated"
    /\ manual.review_id \in LastReviewsAdded
    /\ last.run.reviews[manual.review_id].review_status = "PENDING"
    /\ reviews[manual.review_id].review_status = "RESOLVED"
    /\ reviews[manual.review_id].plate_status = "READ"

====
